---- MODULE Spec2Model ----
(***************************************************************************)
(* Model of the chat-api socket handler (src/sockets/chatHandler.js), the  *)
(* Room / Message stores it writes to (src/models/Room.js, Message model)  *)
(* and the HTTP room creation route (src/routes/rooms.js).                 *)
(*                                                                         *)
(* Every socket.on(...) handler is an async function.  The code before its *)
(* first await runs when the event is received; every await suspends the   *)
(* handler, and any other handler (of the same or of another connection)   *)
(* may run before it resumes.  A suspended handler is a record in the bag  *)
(* tasks; the action named after a store call executes that call on the    *)
(* store and runs the handler up to its next await or its end.             *)
(*                                                                         *)
(* Spec runs the socket events on a store that holds rooms and a message;  *)
(* SpecRooms runs room creation (socket and HTTP) on a fresh store.        *)
(***************************************************************************)
EXTENDS Integers, Sequences, FiniteSets, Bags, TLC

\* ------------------------------------------------------------- universe
Conns == {"s1", "s2"}            \* socket ids assigned by the transport
Users == {"u1"}                  \* senderId values sent in user:connect
Apps == {"t1", "t2"}             \* applicationId values (tenants)
Names == {"general"}             \* room names
HTTP == "http"                   \* the requester of an HTTP request
NoRoom == 0                      \* currentRoom: null
NoApp == "undefined"             \* applicationId: undefined
NoUser == "undefined"            \* socket.senderId: undefined
Anonymous == "Anonymous"

MaxRooms == 3                    \* room ids the store hands out
MaxMsgs == 2                     \* message ids the store hands out
MaxTasks == 2                    \* handlers suspended at the same time
MaxEvents == 4                   \* client events and requests received in a run

RoomIds == 1..MaxRooms
MsgIds == 1..MaxMsgs

VARIABLES
    sockState,       \* socket id -> "open" | "closed"
    sockProps,       \* socket.username / socket.senderId / socket.applicationId
    connectedUsers,  \* the Map io.connectedUsers: socket id -> session or NoSession
    socketRooms,     \* socket id -> the broadcast groups the socket is in
    rooms,           \* the Room collection
    messages,        \* the Message collection
    tasks,           \* bag of suspended handlers
    last,            \* the step just taken and the events it emitted
    received         \* number of client events and requests received so far

vars == <<sockState, sockProps, connectedUsers, socketRooms, rooms, messages, tasks,
          last, received>>

NoSession == [username |-> NoUser, senderId |-> NoUser, applicationId |-> NoApp,
              currentRoom |-> NoRoom, present |-> FALSE]

Session(username, senderId, applicationId, currentRoom) ==
    [username |-> username, senderId |-> senderId, applicationId |-> applicationId,
     currentRoom |-> currentRoom, present |-> TRUE]

\* ------------------------------------------------------------- emissions
\* An emitted event: its name, its error text if any, the room it is
\* addressed to (NoRoom for socket.emit and io.emit), the message ids it
\* carries, its count field (0 for an event without one), the socket ids
\* of the sessions it lists, the ids of the messages it lists in order
\* (history) and the connections it is delivered to.  A
\* closed socket is no longer in the namespace and receives nothing.
Emit(ev, text, room, msgs, to) ==
    [ev |-> ev, text |-> text, room |-> room, msgs |-> msgs, to |-> to, count |-> 0,
     users |-> {}, history |-> <<>>]

\* socket.emit(ev, ...)
SocketEmit(st, c, ev, text, msgs) ==
    Emit(ev, text, NoRoom, msgs, IF c \in Conns /\ st[c] = "open" THEN {c} ELSE {})

\* socket.emit(ev, { messageIds, count })
SocketEmitCount(st, c, ev, msgs, count) ==
    [SocketEmit(st, c, ev, "", msgs) EXCEPT !.count = count]

\* socket.emit(ev, roomUsers)
SocketEmitUsers(st, c, ev, users) ==
    [SocketEmit(st, c, ev, "", {}) EXCEPT !.users = users]

\* io.to(room).emit(ev, ...)
IoToEmit(st, sr, room, ev, msgs) ==
    Emit(ev, "", room, msgs, {d \in Conns : st[d] = "open" /\ room \in sr[d]})

\* Faulty variant of SocketToEmit: the emitting socket is not left out
SocketToEmit_IncludesSender(st, sr, c, room, ev, msgs) ==
    IoToEmit(st, sr, room, ev, msgs)

\* socket.to(room).emit(ev, ...)
SocketToEmit(st, sr, c, room, ev, msgs) ==
    Emit(ev, "", room, msgs, {d \in Conns : st[d] = "open" /\ room \in sr[d]} \ {c})

\* io.emit(ev, ...)
IoEmit(st, ev) ==
    Emit(ev, "", NoRoom, {}, {d \in Conns : st[d] = "open"})

\* ------------------------------------------------------------- tasks
\* A suspended handler: its event, the await it is suspended at and its
\* local variables (seen: the participants of the room document it fetched;
\* left: the room a room:join left, its userData.currentRoom; at: the time
\* at which a message:send built its document, counted in events received).
Task(op, pc, c, room, user, app, name, priv, msgs) ==
    [op |-> op, pc |-> pc, conn |-> c, room |-> room, user |-> user, app |-> app,
     name |-> name, priv |-> priv, msgs |-> msgs, nxt |-> "none", seen |-> <<>>,
     left |-> NoRoom, at |-> 0]

NoTask == Task("none", "none", HTTP, NoRoom, NoUser, NoApp, "", FALSE, {})

Pending == BagToSet(tasks)

CanSuspend == BagCardinality(tasks) < MaxTasks

\* A suspended room:join of connection c learns whether the event the
\* connection received next was a room:leave, and whether any other event
\* followed (history only: no handler reads it).
NoteNext(c, op) ==
    LET mark(t) == IF t.conn # c \/ t.op # "room:join" THEN t
                   ELSE IF t.nxt = "none" /\ op = "room:leave"
                        THEN [t EXCEPT !.nxt = "room:leave"]
                   ELSE [t EXCEPT !.nxt = "other"]
        S == Pending
        marked == {mark(t) : t \in S}
        RECURSIVE Sum(_)
        Sum(P) == IF P = {} THEN 0
                  ELSE LET x == CHOOSE x \in P : TRUE
                       IN  tasks[x] + Sum(P \ {x})
    IN  [m \in marked |-> Sum({t \in S : mark(t) = m})]

\* An event or request is received
Receive == /\ received < MaxEvents
           /\ received' = received + 1

Spawn(c, t) == NoteNext(c, t.op) (+) SetToBag({t})

Resume(t, t2) == (tasks (-) SetToBag({t})) (+) SetToBag({t2})

Finish(t) == tasks (-) SetToBag({t})

\* The step taken: the action, the handler it ran, whether the store call it
\* executed was served (FALSE: the store rejected it with an error of its
\* own), and the events emitted.
Step(act, t, ok, emits) == [act |-> act, task |-> t, ok |-> ok, emits |-> emits]

\* ------------------------------------------------------------- stores
RoomById(id) == {r \in rooms : r.id = id}

\* ------------------------------------------------------------- Init
\* The server has started and chatHandler(io, socket) has registered the
\* handlers of every socket of Conns: the registry is empty, and the store
\* is what earlier runs left in it.
Start(storedRooms, storedMessages) ==
    /\ sockState = [c \in Conns |-> "open"]
    /\ sockProps = [c \in Conns |-> [username |-> NoUser, senderId |-> NoUser,
                                     applicationId |-> NoApp]]
    /\ connectedUsers = [c \in Conns |-> NoSession]
    /\ socketRooms = [c \in Conns |-> {}]
    /\ rooms = storedRooms
    /\ messages = storedMessages
    /\ tasks = EmptyBag
    /\ last = Step("init", NoTask, TRUE, {})
    /\ received = 0

\* A store that holds two public rooms of an earlier run, one per application
StoredRooms ==
    {[id |-> 1, name |-> "general", applicationId |-> "t1", createdBy |-> "u0",
      isPrivate |-> FALSE, participants |-> <<"u0">>],
     [id |-> 2, name |-> "general", applicationId |-> "t2", createdBy |-> "u0",
      isPrivate |-> FALSE, participants |-> <<"u0">>]}

\* and one message in the first of them
StoredMessages ==
    {[id |-> 1, roomId |-> 1, applicationId |-> "t1", senderId |-> "u0", readBy |-> <<>>,
      content |-> "u0", createdAt |-> 0]}

\* A fresh store
Init == Start({}, {})

\* ------------------------------------------------------------- user:connect
\* chatHandler.js 9-20, up to the await of Room.find
UserConnect(c, u, a) ==
    /\ sockState[c] = "open"
    /\ Receive
    /\ CanSuspend
    /\ sockProps' = [sockProps EXCEPT ![c] =
                        [username |-> u, senderId |-> u, applicationId |-> a]]
    /\ connectedUsers' = [connectedUsers EXCEPT ![c] = Session(u, u, a, NoRoom)]
    /\ LET t == Task("user:connect", "Room.find", c, NoRoom, u, a, "", FALSE, {})
       IN  /\ tasks' = Spawn(c, t)
           /\ last' = Step("UserConnect", t, TRUE, {})
    /\ UNCHANGED <<sockState, socketRooms, rooms, messages>>

\* Room.find resolves and rooms:list is sent; the handler has no try/catch,
\* so a rejected query ends it without any event.
UserConnectRoomFind(t, ok) ==
    /\ t \in Pending /\ t.op = "user:connect" /\ t.pc = "Room.find"
    /\ tasks' = Finish(t)
    /\ last' = Step("UserConnectRoomFind", t, ok,
                    IF ok THEN {SocketEmit(sockState, t.conn, "rooms:list", "", {})} ELSE {})
    /\ UNCHANGED <<received, sockState, sockProps, connectedUsers, socketRooms, rooms, messages>>

\* ------------------------------------------------------------- room:join
\* chatHandler.js 23-25: the handler starts and awaits Room.findById(roomId)
RoomJoin(c, roomId) ==
    /\ sockState[c] = "open"
    /\ Receive
    /\ CanSuspend
    /\ LET t == Task("room:join", "Room.findById", c, roomId, NoUser, NoApp, "", FALSE, {})
       IN  /\ tasks' = Spawn(c, t)
           /\ last' = Step("RoomJoin", t, TRUE, {})
    /\ UNCHANGED <<sockState, sockProps, connectedUsers, socketRooms, rooms, messages>>

\* socket.leave(room) and socket.join(room) on the rooms of the sockets
SocketLeave(sr, c, room) == [sr EXCEPT ![c] = @ \ {room}]

\* Faulty variant of SocketJoin: the session is pointed at the room but the
\* socket is not added to it
SocketJoin_Missing(sr, c, room) == sr

SocketJoin(sr, c, room) == [sr EXCEPT ![c] = @ \cup {room}]

\* room.participants.includes(senderId)
Includes(participants, senderId) ==
    \E i \in DOMAIN participants : participants[i] = senderId

\* Faulty variant of RoomNotFound: the current room is left before the
\* looked-up room is known to exist
RoomNotFound_LeavesFirst(t) ==
    LET c == t.conn
        currentRoomId == connectedUsers[c].currentRoom
        left == SocketLeave(socketRooms, c, currentRoomId)
    IN  /\ tasks' = Finish(t)
        /\ socketRooms' = left
        /\ last' = Step("RoomJoinFindById", t, TRUE,
               {SocketEmit(sockState, c, "error", "Room not found", {})}
               \cup (IF currentRoomId # NoRoom
                     THEN {IoToEmit(sockState, left, currentRoomId, "user:left", {})}
                     ELSE {}))
        /\ UNCHANGED connectedUsers

\* Faulty variant of RoomNotFound: the handler returns without an event
RoomNotFound_Silent(t) ==
    /\ tasks' = Finish(t)
    /\ last' = Step("RoomJoinFindById", t, TRUE, {})
    /\ UNCHANGED <<connectedUsers, socketRooms>>

\* chatHandler.js 26-28: no room has this id
RoomNotFound(t) ==
    /\ tasks' = Finish(t)
    /\ last' = Step("RoomJoinFindById", t, TRUE,
           {SocketEmit(sockState, t.conn, "error", "Room not found", {})})
    /\ UNCHANGED <<connectedUsers, socketRooms>>

\* chatHandler.js 30-54: the current room is left, the room is joined and
\* the session is replaced
RoomFound(t, room) ==
    LET c == t.conn
        roomId == t.room
        userData == connectedUsers[c]
        username == IF userData.present THEN userData.username ELSE Anonymous
        senderId == IF userData.present THEN userData.senderId ELSE c
        currentRoomId == userData.currentRoom
        applicationId == userData.applicationId
        left == IF currentRoomId # NoRoom THEN SocketLeave(socketRooms, c, currentRoomId)
                ELSE socketRooms
        t2 == [t EXCEPT !.user = senderId,
                        !.seen = room.participants,
                        !.left = currentRoomId,
                        !.pc = IF Includes(room.participants, senderId)
                               THEN "Message.find" ELSE "room.save"]
    IN  /\ socketRooms' = SocketJoin(left, c, roomId)
        /\ connectedUsers' = [connectedUsers EXCEPT ![c] =
               Session(username, senderId, applicationId, roomId)]
        /\ tasks' = Resume(t, t2)
        /\ last' = Step("RoomJoinFindById", t, TRUE,
               IF currentRoomId # NoRoom
               THEN {IoToEmit(sockState, left, currentRoomId, "user:left", {})}
               ELSE {})

\* chatHandler.js 25-54: Room.findById resolves; the handler runs up to the
\* await of room.save() or, when the sender is a participant already, of
\* Message.find.  A rejected query is caught by the catch block (75-78).
RoomJoinFindById(t, ok) ==
    /\ t \in Pending /\ t.op = "room:join" /\ t.pc = "Room.findById"
    /\ IF ~ok
       THEN /\ tasks' = Finish(t)
            /\ last' = Step("RoomJoinFindById", t, FALSE,
                   {SocketEmit(sockState, t.conn, "error", "Failed to join room", {})})
            /\ UNCHANGED <<connectedUsers, socketRooms>>
       ELSE IF RoomById(t.room) = {}
       THEN RoomNotFound(t)
       ELSE RoomFound(t, CHOOSE r \in RoomById(t.room) : TRUE)
    /\ UNCHANGED <<received, sockState, sockProps, rooms, messages>>

\* Faulty variant of RoomSave: the whole array is written back as the
\* handler fetched it, plus the pushed identity
RoomSave_Overwrite(r, t) == [r EXCEPT !.participants = Append(t.seen, t.user)]

\* room.participants.push(senderId); room.save(): mongoose sends the push
\* as an atomic $push on the stored document r (chatHandler.js 52-53)
RoomSave(r, t) == [r EXCEPT !.participants = Append(@, t.user)]

\* chatHandler.js 52-54: room.save() resolves.  A rejected save is caught
\* by the handler's catch block (75-78).
RoomJoinSave(t, ok) ==
    /\ t \in Pending /\ t.op = "room:join" /\ t.pc = "room.save"
    /\ IF ok /\ RoomById(t.room) # {}
       THEN /\ rooms' = {IF r.id = t.room
                         THEN RoomSave(r, t)
                         ELSE r : r \in rooms}
            /\ tasks' = Resume(t, [t EXCEPT !.pc = "Message.find"])
            /\ last' = Step("RoomJoinSave", t, TRUE, {})
       ELSE /\ tasks' = Finish(t)
            /\ last' = Step("RoomJoinSave", t, ok,
                   {SocketEmit(sockState, t.conn, "error", "Failed to join room", {})})
            /\ UNCHANGED rooms
    /\ UNCHANGED <<received, sockState, sockProps, connectedUsers, socketRooms, messages>>

\* .limit(50) (chatHandler.js 59)
HistoryLimit == 50

\* .sort({ createdAt: -1 }): the latest message first
RECURSIVE SortByCreatedAtDesc(_)
SortByCreatedAtDesc(S) ==
    IF S = {} THEN <<>>
    ELSE LET m == CHOOSE x \in S : \A y \in S : y.createdAt <= x.createdAt
         IN  <<m>> \o SortByCreatedAtDesc(S \ {m})

\* .limit(n): the first n documents of the result
Limit(docs, n) == SubSeq(docs, 1, IF Len(docs) < n THEN Len(docs) ELSE n)

\* Faulty variant of Reverse: the list is left as the query returned it
Reverse_Missing(docs) == docs

\* messages.reverse() (chatHandler.js 65)
Reverse(docs) == [i \in 1..Len(docs) |-> docs[Len(docs) + 1 - i]]

\* Message.find({ roomId }).sort({ createdAt: -1 }).limit(50)
\* (chatHandler.js 57-60)
MessageFind(roomId) ==
    Limit(SortByCreatedAtDesc({m \in messages : m.roomId = roomId}), HistoryLimit)

\* socket.emit("room:joined", { room, messages: messages.reverse() })
RoomJoined(st, c, roomId) ==
    LET docs == Reverse(MessageFind(roomId))
    IN  [SocketEmit(st, c, "room:joined", "", {docs[i].id : i \in DOMAIN docs})
            EXCEPT !.history = [i \in DOMAIN docs |-> docs[i].id]]

\* chatHandler.js 57-72: Message.find resolves, room:joined and user:joined
RoomJoinMessageFind(t, ok) ==
    /\ t \in Pending /\ t.op = "room:join" /\ t.pc = "Message.find"
    /\ tasks' = Finish(t)
    /\ last' = Step("RoomJoinMessageFind", t, ok,
           IF ok
           THEN {RoomJoined(sockState, t.conn, t.room),
                 SocketToEmit(sockState, socketRooms, t.conn, t.room, "user:joined", {})}
           ELSE {SocketEmit(sockState, t.conn, "error", "Failed to join room", {})})
    /\ UNCHANGED <<received, sockState, sockProps, connectedUsers, socketRooms, rooms, messages>>

\* ------------------------------------------------------------- room:leave
\* Faulty variant of RoomLeave: the identity is also pulled from the stored
\* participants of the room that is left
RoomLeave_Pulls(c) ==
    /\ sockState[c] = "open"
    /\ Receive
    /\ LET userData == connectedUsers[c]
           currentRoom == userData.currentRoom
           t == Task("room:leave", "done", c, currentRoom, NoUser, NoApp, "", FALSE, {})
           left == SocketLeave(socketRooms, c, currentRoom)
       IN  IF currentRoom = NoRoom
           THEN /\ last' = Step("RoomLeave", t, TRUE, {})
                /\ UNCHANGED <<connectedUsers, socketRooms, rooms>>
           ELSE /\ socketRooms' = left
                /\ connectedUsers' = [connectedUsers EXCEPT ![c] =
                       Session(userData.username, userData.senderId,
                               userData.applicationId, NoRoom)]
                /\ rooms' = {IF r.id = currentRoom
                             THEN [r EXCEPT !.participants =
                                     SelectSeq(@, LAMBDA u : u # userData.senderId)]
                             ELSE r : r \in rooms}
                /\ last' = Step("RoomLeave", t, TRUE,
                       {IoToEmit(sockState, left, currentRoom, "user:left", {}),
                        SocketEmit(sockState, c, "room:left", "", {})})
    /\ tasks' = NoteNext(c, "room:leave")
    /\ UNCHANGED <<sockState, sockProps, messages>>

\* chatHandler.js 82-98: no await, the whole handler is one step
RoomLeave(c) ==
    /\ sockState[c] = "open"
    /\ Receive
    /\ LET userData == connectedUsers[c]
           currentRoom == userData.currentRoom
           t == Task("room:leave", "done", c, currentRoom, NoUser, NoApp, "", FALSE, {})
           left == SocketLeave(socketRooms, c, currentRoom)
       IN  IF currentRoom = NoRoom
           THEN /\ last' = Step("RoomLeave", t, TRUE, {})
                /\ UNCHANGED <<connectedUsers, socketRooms>>
           ELSE /\ socketRooms' = left
                /\ connectedUsers' = [connectedUsers EXCEPT ![c] =
                       Session(userData.username, userData.senderId,
                               userData.applicationId, NoRoom)]
                /\ last' = Step("RoomLeave", t, TRUE,
                       {IoToEmit(sockState, left, currentRoom, "user:left", {}),
                        SocketEmit(sockState, c, "room:left", "", {})})
    /\ tasks' = NoteNext(c, "room:leave")
    /\ UNCHANGED <<sockState, sockProps, rooms, messages>>

\* ------------------------------------------------------------- disconnect
\* The transport closes the socket: it leaves all its rooms and is removed
\* from the namespace, then the "disconnect" handler runs (chatHandler.js
\* 297-312).  The handler has no await.
Disconnect(c) ==
    /\ sockState[c] = "open"
    /\ Receive
    /\ LET userData == connectedUsers[c]
           closed == [sockState EXCEPT ![c] = "closed"]
           left == [socketRooms EXCEPT ![c] = {}]
           t == Task("disconnect", "done", c, userData.currentRoom,
                     NoUser, NoApp, "", FALSE, {})
       IN  /\ sockState' = closed
           /\ socketRooms' = left
           /\ connectedUsers' = [connectedUsers EXCEPT ![c] = NoSession]
           /\ last' = Step("Disconnect", t, TRUE,
                  IF userData.present /\ userData.currentRoom # NoRoom
                  THEN {IoToEmit(closed, left, userData.currentRoom, "user:left", {})}
                  ELSE {})
    /\ tasks' = NoteNext(c, "disconnect")
    /\ UNCHANGED <<sockProps, rooms, messages>>

\* ------------------------------------------------------------- room:create
\* chatHandler.js 234-244, up to the await of Room.findOne
RoomCreate(c, name, isPrivate, applicationId) ==
    /\ sockState[c] = "open"
    /\ Receive
    /\ LET senderId == IF sockProps[c].senderId # NoUser THEN sockProps[c].senderId ELSE c
           appId == IF applicationId # NoApp THEN applicationId
                    ELSE sockProps[c].applicationId
           t == Task("room:create", "Room.findOne", c, NoRoom, senderId, appId,
                     name, isPrivate, {})
       IN  IF appId = NoApp
           THEN /\ tasks' = NoteNext(c, "room:create")
                /\ last' = Step("RoomCreate", t, TRUE,
                       {SocketEmit(sockState, c, "error", "applicationId is required", {})})
           ELSE /\ CanSuspend
                /\ tasks' = Spawn(c, t)
                /\ last' = Step("RoomCreate", t, TRUE, {})
    /\ UNCHANGED <<sockState, sockProps, connectedUsers, socketRooms, rooms, messages>>

\* routes/rooms.js 554-562: POST /rooms up to the await of Room.findOne;
\* name, createdBy and applicationId are present
PostRooms(name, createdBy, isPrivate, applicationId) ==
    /\ Receive
    /\ CanSuspend
    /\ LET t == Task("POST /rooms", "Room.findOne", HTTP, NoRoom, createdBy,
                     applicationId, name, isPrivate, {})
       IN  /\ tasks' = Spawn(HTTP, t)
           /\ last' = Step("PostRooms", t, TRUE, {})
    /\ UNCHANGED <<sockState, sockProps, connectedUsers, socketRooms, rooms, messages>>

\* Rooms with this name in this application: Room.findOne({ name, applicationId })
RoomsNamed(name, applicationId) ==
    {r \in rooms : r.name = name /\ r.applicationId = applicationId}

\* Reply to the requester: socket.emit for a socket, the HTTP response otherwise
Reply(c, ev, text) ==
    IF c = HTTP THEN Emit(ev, text, NoRoom, {}, {HTTP})
    ELSE SocketEmit(sockState, c, ev, text, {})

\* chatHandler.js 244-249 and routes/rooms.js 562-567: Room.findOne resolves
RoomCreateFindOne(t, ok) ==
    /\ t \in Pending /\ t.op \in {"room:create", "POST /rooms"} /\ t.pc = "Room.findOne"
    /\ IF ~ok
       THEN /\ tasks' = Finish(t)
            /\ last' = Step("RoomCreateFindOne", t, FALSE,
                            {Reply(t.conn, "error", "Failed to create room")})
       ELSE IF RoomsNamed(t.name, t.app) # {}
       THEN /\ tasks' = Finish(t)
            /\ last' = Step("RoomCreateFindOne", t, TRUE,
                   {Reply(t.conn, "error", "Room name already exists for this application")})
       ELSE /\ tasks' = Resume(t, [t EXCEPT !.pc = "Room.create"])
            /\ last' = Step("RoomCreateFindOne", t, TRUE, {})
    /\ UNCHANGED <<received, sockState, sockProps, connectedUsers, socketRooms, rooms, messages>>

\* Faulty variant of UniqueIndexAllows: the collection has no unique index
UniqueIndexAllows_NoIndex(name, applicationId) == TRUE

\* Room.js 39-40: the unique index on (name, applicationId) rejects an insert
\* of a pair that is stored already
UniqueIndexAllows(name, applicationId) == RoomsNamed(name, applicationId) = {}

FreeRoomIds == RoomIds \ {r.id : r \in rooms}

\* Faulty variant of Public: every room is announced
Public_Always(isPrivate) == TRUE

\* !isPrivate (chatHandler.js 265)
Public(isPrivate) == ~isPrivate

\* chatHandler.js 249-272 and routes/rooms.js 567-576: Room.create resolves
RoomCreateCreate(t, ok) ==
    /\ t \in Pending /\ t.op \in {"room:create", "POST /rooms"} /\ t.pc = "Room.create"
    /\ FreeRoomIds # {}
    /\ tasks' = Finish(t)
    /\ IF ok /\ UniqueIndexAllows(t.name, t.app)
       THEN LET id == CHOOSE i \in FreeRoomIds : \A j \in FreeRoomIds : i <= j
                room == [id |-> id, name |-> t.name, applicationId |-> t.app,
                         createdBy |-> t.user, isPrivate |-> t.priv,
                         participants |-> <<t.user>>]
            IN  /\ rooms' = rooms \cup {room}
                /\ last' = Step("RoomCreateCreate", t, TRUE,
                       IF t.conn = HTTP THEN {Reply(HTTP, "201", "")}
                       ELSE {SocketEmit(sockState, t.conn, "room:created", "", {})}
                            \cup (IF Public(t.priv) THEN {IoEmit(sockState, "rooms:new")}
                                  ELSE {}))
       ELSE /\ UNCHANGED rooms
            /\ last' = Step("RoomCreateCreate", t, ok,
                            {Reply(t.conn, "error", "Failed to create room")})
    /\ UNCHANGED <<received, sockState, sockProps, connectedUsers, socketRooms, messages>>

\* ------------------------------------------------------------- message:send
MsgById(id) == {m \in messages : m.id = id}

FreeMsgIds == MsgIds \ {m.id : m \in messages}

SendsPending == BagCardinality([t \in {x \in Pending : x.op = "message:send"} |-> tasks[t]])

\* Faulty variant of InRoom: only the session is looked at
InRoom_SessionOnly(userData) == userData.present

\* userData?.currentRoom is set (chatHandler.js 104)
InRoom(userData) == userData.currentRoom # NoRoom

\* chatHandler.js 101-110: the session is read and Message.create is awaited.
\* The content a client sends is the name of its connection.
MessageSend(c) ==
    /\ sockState[c] = "open"
    /\ Receive
    /\ LET userData == connectedUsers[c]
           rejected == Task("message:send", "Message.create", c, userData.currentRoom,
                            userData.senderId, userData.applicationId,
                            userData.username, FALSE, {})
           t == [rejected EXCEPT !.at = received + 1]
       IN  IF ~InRoom(userData)
           THEN /\ tasks' = NoteNext(c, "message:send")
                /\ last' = Step("MessageSend", rejected, TRUE,
                       {SocketEmit(sockState, c, "error", "You must join a room first", {})})
           ELSE /\ CanSuspend
                /\ Cardinality(FreeMsgIds) > SendsPending
                /\ tasks' = Spawn(c, t)
                /\ last' = Step("MessageSend", t, TRUE, {})
    /\ UNCHANGED <<sockState, sockProps, connectedUsers, socketRooms, rooms, messages>>

\* Message schema (part_003 17-52): roomId, applicationId, senderId, sender
\* and content are required, so a document without one of them is rejected
MessageValid(roomId, applicationId, senderId, sender) ==
    /\ roomId # NoRoom
    /\ applicationId # NoApp
    /\ senderId # NoUser
    /\ sender # NoUser

\* Faulty variant of MessageSendCreate: a failed Message.create is reported
\* to the room
MessageSendCreate_NotifiesRoom(t, ok) ==
    /\ t \in Pending /\ t.op = "message:send" /\ t.pc = "Message.create"
    /\ tasks' = Finish(t)
    /\ IF ok /\ MessageValid(t.room, t.app, t.user, t.name)
       THEN LET id == CHOOSE i \in FreeMsgIds : \A j \in FreeMsgIds : i <= j
                message == [id |-> id, roomId |-> t.room, applicationId |-> t.app,
                            senderId |-> t.user, readBy |-> <<>>,
                            content |-> t.conn, createdAt |-> t.at]
            IN  /\ messages' = messages \cup {message}
                /\ last' = Step("MessageSendCreate", t, TRUE,
                       {IoToEmit(sockState, socketRooms, t.room, "message:new", {id})})
       ELSE /\ UNCHANGED messages
            /\ last' = Step("MessageSendCreate", t, ok,
                   {[IoToEmit(sockState, socketRooms, t.room, "error", {})
                        EXCEPT !.text = "Failed to send message"]})
    /\ UNCHANGED <<received, sockState, sockProps, connectedUsers, socketRooms, rooms>>

\* chatHandler.js 110-134: Message.create resolves and message:new goes to
\* the room the session was in when the event was received
MessageSendCreate(t, ok) ==
    /\ t \in Pending /\ t.op = "message:send" /\ t.pc = "Message.create"
    /\ tasks' = Finish(t)
    /\ IF ok /\ MessageValid(t.room, t.app, t.user, t.name)
       THEN LET id == CHOOSE i \in FreeMsgIds : \A j \in FreeMsgIds : i <= j
                message == [id |-> id, roomId |-> t.room, applicationId |-> t.app,
                            senderId |-> t.user, readBy |-> <<>>,
                            content |-> t.conn, createdAt |-> t.at]
            IN  /\ messages' = messages \cup {message}
                /\ last' = Step("MessageSendCreate", t, TRUE,
                       {IoToEmit(sockState, socketRooms, t.room, "message:new", {id})})
       ELSE /\ UNCHANGED messages
            /\ last' = Step("MessageSendCreate", t, ok,
                   {SocketEmit(sockState, t.conn, "error", "Failed to send message", {})})
    /\ UNCHANGED <<received, sockState, sockProps, connectedUsers, socketRooms, rooms>>

\* ------------------------------------------------------------- message:read
\* message.readBy.some(r => r.odooId === senderId)
HasReceipt(message, senderId) ==
    \E i \in DOMAIN message.readBy : message.readBy[i] = senderId

\* Faulty variant of Authenticated: the identity is not looked at
Authenticated_Always(userData) == TRUE

\* userData?.senderId is set (chatHandler.js 141)
Authenticated(userData) == userData.senderId # NoUser

\* chatHandler.js 138-147: the session is read and Message.findById is awaited
MessageRead(c, messageId) ==
    /\ sockState[c] = "open"
    /\ Receive
    /\ LET userData == connectedUsers[c]
           t == Task("message:read", "Message.findById", c, userData.currentRoom,
                     userData.senderId, NoApp, "", FALSE, {messageId})
       IN  IF ~Authenticated(userData)
           THEN /\ tasks' = NoteNext(c, "message:read")
                /\ last' = Step("MessageRead", t, TRUE,
                       {SocketEmit(sockState, c, "error", "User not authenticated", {})})
           ELSE /\ CanSuspend
                /\ tasks' = Spawn(c, t)
                /\ last' = Step("MessageRead", t, TRUE, {})
    /\ UNCHANGED <<sockState, sockProps, connectedUsers, socketRooms, rooms, messages>>

\* chatHandler.js 147-156 and 167: Message.findById resolves; a message the
\* sender has read already is answered at once, otherwise the receipt is
\* pushed on the fetched document and message.save() is awaited
MessageReadFindById(t, ok) ==
    /\ t \in Pending /\ t.op = "message:read" /\ t.pc = "Message.findById"
    /\ LET found == UNION {MsgById(id) : id \in t.msgs}
       IN  IF ~ok
           THEN /\ tasks' = Finish(t)
                /\ last' = Step("MessageReadFindById", t, FALSE,
                       {SocketEmit(sockState, t.conn, "error",
                                   "Failed to mark message as read", {})})
           ELSE IF found = {}
           THEN /\ tasks' = Finish(t)
                /\ last' = Step("MessageReadFindById", t, TRUE,
                       {SocketEmit(sockState, t.conn, "error", "Message not found", {})})
           ELSE IF \E m \in found : HasReceipt(m, t.user)
           THEN /\ tasks' = Finish(t)
                /\ last' = Step("MessageReadFindById", t, TRUE,
                       {SocketEmit(sockState, t.conn, "message:read:success", "", t.msgs)})
           ELSE /\ tasks' = Resume(t, [t EXCEPT !.pc = "message.save"])
                /\ last' = Step("MessageReadFindById", t, TRUE, {})
    /\ UNCHANGED <<received, sockState, sockProps, connectedUsers, socketRooms, rooms, messages>>

\* The stored message after the $push of a receipt of senderId
PushReceipt(m, senderId) == [m EXCEPT !.readBy = Append(@, senderId)]

\* chatHandler.js 156-167: message.save() resolves: mongoose sends the pushed
\* receipt as an atomic $push on the stored document
MessageReadSave(t, ok) ==
    /\ t \in Pending /\ t.op = "message:read" /\ t.pc = "message.save"
    /\ tasks' = Finish(t)
    /\ IF ok /\ (\E m \in messages : m.id \in t.msgs)
       THEN /\ messages' = {IF m.id \in t.msgs THEN PushReceipt(m, t.user) ELSE m :
                            m \in messages}
            /\ last' = Step("MessageReadSave", t, TRUE,
                   (IF t.room # NoRoom
                    THEN {IoToEmit(sockState, socketRooms, t.room, "message:read", t.msgs)}
                    ELSE {})
                   \cup {SocketEmit(sockState, t.conn, "message:read:success", "", t.msgs)})
       ELSE /\ UNCHANGED messages
            /\ last' = Step("MessageReadSave", t, ok,
                   {SocketEmit(sockState, t.conn, "error",
                               "Failed to mark message as read", {})})
    /\ UNCHANGED <<received, sockState, sockProps, connectedUsers, socketRooms, rooms>>

\* ------------------------------------------------------------- messages:read
\* chatHandler.js 175-184: the session is read and Message.updateMany awaited
MessagesRead(c, messageIds) ==
    /\ sockState[c] = "open"
    /\ Receive
    /\ LET userData == connectedUsers[c]
           t == Task("messages:read", "Message.updateMany", c, userData.currentRoom,
                     userData.senderId, NoApp, "", FALSE, messageIds)
       IN  IF userData.senderId = NoUser
           THEN /\ tasks' = NoteNext(c, "messages:read")
                /\ last' = Step("MessagesRead", t, TRUE,
                       {SocketEmit(sockState, c, "error", "User not authenticated", {})})
           ELSE /\ CanSuspend
                /\ tasks' = Spawn(c, t)
                /\ last' = Step("MessagesRead", t, TRUE, {})
    /\ UNCHANGED <<sockState, sockProps, connectedUsers, socketRooms, rooms, messages>>

\* The filter of updateMany: { _id: { $in: messageIds }, "readBy.odooId": { $ne: senderId } }
Matched(messageIds, senderId) ==
    {m \in messages : m.id \in messageIds /\ ~HasReceipt(m, senderId)}

\* chatHandler.js 184-207: Message.updateMany resolves
MessagesReadUpdateMany(t, ok) ==
    /\ t \in Pending /\ t.op = "messages:read" /\ t.pc = "Message.updateMany"
    /\ tasks' = Finish(t)
    /\ IF ok
       THEN LET hit == Matched(t.msgs, t.user)
                modifiedCount == Cardinality(hit)
            IN  /\ messages' = {IF m \in hit THEN PushReceipt(m, t.user) ELSE m :
                                m \in messages}
                /\ last' = Step("MessagesReadUpdateMany", t, TRUE,
                       (IF t.room # NoRoom /\ modifiedCount > 0
                        THEN {IoToEmit(sockState, socketRooms, t.room, "messages:read", t.msgs)}
                        ELSE {})
                       \cup {SocketEmitCount(sockState, t.conn, "messages:read:success",
                                              t.msgs, modifiedCount)})
       ELSE /\ UNCHANGED messages
            /\ last' = Step("MessagesReadUpdateMany", t, FALSE,
                   {SocketEmit(sockState, t.conn, "error",
                               "Failed to mark messages as read", {})})
    /\ UNCHANGED <<received, sockState, sockProps, connectedUsers, socketRooms, rooms>>

\* ------------------------------------------------------------- room:users
\* chatHandler.js 286-291: the entries of connectedUsers whose currentRoom
\* is that of the requester
RoomUsersOf(c) ==
    {id \in Conns : /\ connectedUsers[id].present
                    /\ connectedUsers[id].currentRoom = connectedUsers[c].currentRoom}

\* chatHandler.js 282-294: no await, the whole handler is one step
RoomUsers(c) ==
    /\ sockState[c] = "open"
    /\ Receive
    /\ LET userData == connectedUsers[c]
           t == Task("room:users", "done", c, userData.currentRoom, NoUser, NoApp,
                     "", FALSE, {})
       IN  last' = Step("RoomUsers", t, TRUE,
                  IF ~InRoom(userData) THEN {}
                  ELSE {SocketEmitUsers(sockState, c, "room:users", RoomUsersOf(c))})
    /\ tasks' = NoteNext(c, "room:users")
    /\ UNCHANGED <<sockState, sockProps, connectedUsers, socketRooms, rooms, messages>>

\* ------------------------------------------------------------- DELETE /rooms/:id
\* routes/rooms.js 620-622: up to the await of Room.findByIdAndDelete
DeleteRooms(id) ==
    /\ Receive
    /\ CanSuspend
    /\ LET t == Task("DELETE /rooms/:id", "Room.findByIdAndDelete", HTTP, id, NoUser,
                     NoApp, "", FALSE, {})
       IN  /\ tasks' = Spawn(HTTP, t)
           /\ last' = Step("DeleteRooms", t, TRUE, {})
    /\ UNCHANGED <<sockState, sockProps, connectedUsers, socketRooms, rooms, messages>>

\* routes/rooms.js 622-628: Room.findByIdAndDelete resolves: the room is
\* removed from the store, and Message.deleteMany is awaited
DeleteRoomsFindByIdAndDelete(t, ok) ==
    /\ t \in Pending /\ t.op = "DELETE /rooms/:id" /\ t.pc = "Room.findByIdAndDelete"
    /\ IF ~ok
       THEN /\ tasks' = Finish(t)
            /\ last' = Step("DeleteRoomsFindByIdAndDelete", t, FALSE,
                            {Reply(HTTP, "500", "Failed to delete room")})
            /\ UNCHANGED rooms
       ELSE IF RoomById(t.room) = {}
       THEN /\ tasks' = Finish(t)
            /\ last' = Step("DeleteRoomsFindByIdAndDelete", t, TRUE,
                            {Reply(HTTP, "404", "Room not found")})
            /\ UNCHANGED rooms
       ELSE /\ rooms' = rooms \ RoomById(t.room)
            /\ tasks' = Resume(t, [t EXCEPT !.pc = "Message.deleteMany"])
            /\ last' = Step("DeleteRoomsFindByIdAndDelete", t, TRUE, {})
    /\ UNCHANGED <<received, sockState, sockProps, connectedUsers, socketRooms, messages>>

\* routes/rooms.js 628-633: Message.deleteMany({ roomId }) resolves
DeleteRoomsDeleteMany(t, ok) ==
    /\ t \in Pending /\ t.op = "DELETE /rooms/:id" /\ t.pc = "Message.deleteMany"
    /\ tasks' = Finish(t)
    /\ IF ok
       THEN /\ messages' = {m \in messages : m.roomId # t.room}
            /\ last' = Step("DeleteRoomsDeleteMany", t, TRUE,
                            {Reply(HTTP, "200", "Room deleted successfully")})
       ELSE /\ UNCHANGED messages
            /\ last' = Step("DeleteRoomsDeleteMany", t, FALSE,
                            {Reply(HTTP, "500", "Failed to delete room")})
    /\ UNCHANGED <<received, sockState, sockProps, connectedUsers, socketRooms, rooms>>

\* ------------------------------------------------------------- specifications
\* Room creation on a fresh store, over the socket and over HTTP
NextRooms ==
    \/ \E c \in Conns, u \in Users, a \in Apps : UserConnect(c, u, a)
    \/ \E c \in Conns, n \in Names, p \in BOOLEAN, a \in Apps \cup {NoApp} :
          RoomCreate(c, n, p, a)
    \/ \E n \in Names, u \in Users, p \in BOOLEAN, a \in Apps : PostRooms(n, u, p, a)
    \/ \E c \in Conns : Disconnect(c)
    \/ \E t \in Pending, ok \in BOOLEAN : UserConnectRoomFind(t, ok)
    \/ \E t \in Pending, ok \in BOOLEAN : RoomCreateFindOne(t, ok)
    \/ \E t \in Pending, ok \in BOOLEAN : RoomCreateCreate(t, ok)

SpecRooms == Init /\ [][NextRooms]_vars

\* Every socket event, on a store that holds rooms and a message
Next ==
    \/ \E c \in Conns, u \in Users, a \in Apps : UserConnect(c, u, a)
    \/ \E c \in Conns, r \in RoomIds : RoomJoin(c, r)
    \/ \E c \in Conns : RoomLeave(c)
    \/ \E c \in Conns : Disconnect(c)
    \/ \E c \in Conns : MessageSend(c)
    \/ \E c \in Conns, m \in MsgIds : MessageRead(c, m)
    \/ \E c \in Conns, ms \in SUBSET MsgIds \ {{}} : MessagesRead(c, ms)
    \/ \E t \in Pending, ok \in BOOLEAN : UserConnectRoomFind(t, ok)
    \/ \E t \in Pending, ok \in BOOLEAN : RoomJoinFindById(t, ok)
    \/ \E t \in Pending, ok \in BOOLEAN : RoomJoinSave(t, ok)
    \/ \E t \in Pending, ok \in BOOLEAN : RoomJoinMessageFind(t, ok)
    \/ \E t \in Pending, ok \in BOOLEAN : MessageSendCreate(t, ok)
    \/ \E t \in Pending, ok \in BOOLEAN : MessageReadFindById(t, ok)
    \/ \E t \in Pending, ok \in BOOLEAN : MessageReadSave(t, ok)
    \/ \E t \in Pending, ok \in BOOLEAN : MessagesReadUpdateMany(t, ok)

Spec == Start(StoredRooms, StoredMessages) /\ [][Next]_vars

\* The socket events of sessions, rooms and single read-marks: every receipt
\* in the store was appended by a message:read
NextRead ==
    \/ \E c \in Conns, u \in Users, a \in Apps : UserConnect(c, u, a)
    \/ \E c \in Conns, r \in RoomIds : RoomJoin(c, r)
    \/ \E c \in Conns : RoomLeave(c)
    \/ \E c \in Conns : Disconnect(c)
    \/ \E c \in Conns, m \in MsgIds : MessageRead(c, m)
    \/ \E t \in Pending, ok \in BOOLEAN : UserConnectRoomFind(t, ok)
    \/ \E t \in Pending, ok \in BOOLEAN : RoomJoinFindById(t, ok)
    \/ \E t \in Pending, ok \in BOOLEAN : RoomJoinSave(t, ok)
    \/ \E t \in Pending, ok \in BOOLEAN : RoomJoinMessageFind(t, ok)
    \/ \E t \in Pending, ok \in BOOLEAN : MessageReadFindById(t, ok)
    \/ \E t \in Pending, ok \in BOOLEAN : MessageReadSave(t, ok)

SpecRead == Start(StoredRooms, StoredMessages) /\ [][NextRead]_vars

\* Sessions are made, rooms joined and messages sent, on a store that holds
\* rooms and no message
NextSend ==
    \/ \E c \in Conns, u \in Users, a \in Apps : UserConnect(c, u, a)
    \/ \E t \in Pending, ok \in BOOLEAN : UserConnectRoomFind(t, ok)
    \/ \E c \in Conns, r \in RoomIds : RoomJoin(c, r)
    \/ \E c \in Conns : RoomLeave(c)
    \/ \E c \in Conns : MessageSend(c)
    \/ \E t \in Pending, ok \in BOOLEAN : RoomJoinFindById(t, ok)
    \/ \E t \in Pending, ok \in BOOLEAN : RoomJoinSave(t, ok)
    \/ \E t \in Pending, ok \in BOOLEAN : RoomJoinMessageFind(t, ok)
    \/ \E t \in Pending, ok \in BOOLEAN : MessageSendCreate(t, ok)

SpecSend == Start(StoredRooms, {}) /\ [][NextSend]_vars

\* Sessions are made and ended, rooms joined and left, and the users of a
\* room listed
NextUsers ==
    \/ \E c \in Conns, u \in Users, a \in Apps : UserConnect(c, u, a)
    \/ \E c \in Conns, r \in RoomIds : RoomJoin(c, r)
    \/ \E c \in Conns : RoomLeave(c)
    \/ \E c \in Conns : RoomUsers(c)
    \/ \E c \in Conns : Disconnect(c)
    \/ \E t \in Pending, ok \in BOOLEAN : UserConnectRoomFind(t, ok)
    \/ \E t \in Pending, ok \in BOOLEAN : RoomJoinFindById(t, ok)
    \/ \E t \in Pending, ok \in BOOLEAN : RoomJoinSave(t, ok)
    \/ \E t \in Pending, ok \in BOOLEAN : RoomJoinMessageFind(t, ok)

SpecUsers == Start(StoredRooms, StoredMessages) /\ [][NextUsers]_vars

\* The largest number of messages stored in the first room, and the number
\* of messages stored in the second
MaxHistory == 52
OtherMsgs == 2

\* n messages in the first room, one every second tick, and k in the second
\* room, written between the latest of them
ManyMessages(n, k) ==
    {[id |-> i, roomId |-> 1, applicationId |-> "t1", senderId |-> "u0",
      readBy |-> <<>>, content |-> "u0", createdAt |-> 2 * i] : i \in 1..n}
    \cup {[id |-> n + j, roomId |-> 2, applicationId |-> "t2", senderId |-> "u0",
           readBy |-> <<>>, content |-> "u0", createdAt |-> 2 * (n - j) + 1] : j \in 1..k}

\* Rooms are joined, on one connection, on a store that holds fewer
\* messages than the limit of the history, as many, or more
NextHistory ==
    \/ \E r \in RoomIds : RoomJoin("s1", r)
    \/ \E t \in Pending, ok \in BOOLEAN : RoomJoinFindById(t, ok)
    \/ \E t \in Pending, ok \in BOOLEAN : RoomJoinSave(t, ok)
    \/ \E t \in Pending, ok \in BOOLEAN : RoomJoinMessageFind(t, ok)

SpecHistory ==
    /\ \E n \in {0, 1} \cup ((HistoryLimit - 1)..MaxHistory), k \in {0, OtherMsgs} :
          Start(StoredRooms, ManyMessages(n, k))
    /\ [][NextHistory]_vars

\* Sessions are made, rooms joined, messages sent and rooms deleted over
\* HTTP
NextDelete ==
    \/ \E c \in Conns, u \in Users, a \in Apps : UserConnect(c, u, a)
    \/ \E c \in Conns, r \in RoomIds : RoomJoin(c, r)
    \/ \E c \in Conns : MessageSend(c)
    \/ \E r \in RoomIds : DeleteRooms(r)
    \/ \E t \in Pending, ok \in BOOLEAN : UserConnectRoomFind(t, ok)
    \/ \E t \in Pending, ok \in BOOLEAN : RoomJoinFindById(t, ok)
    \/ \E t \in Pending, ok \in BOOLEAN : RoomJoinSave(t, ok)
    \/ \E t \in Pending, ok \in BOOLEAN : RoomJoinMessageFind(t, ok)
    \/ \E t \in Pending, ok \in BOOLEAN : MessageSendCreate(t, ok)
    \/ \E t \in Pending, ok \in BOOLEAN : DeleteRoomsFindByIdAndDelete(t, ok)
    \/ \E t \in Pending, ok \in BOOLEAN : DeleteRoomsDeleteMany(t, ok)

SpecDelete == Start(StoredRooms, StoredMessages) /\ [][NextDelete]_vars

\* The requests of one connection that are answered with a terminal reply,
\* on a store that holds one room and one message; every store call that
\* is awaited eventually returns or fails
NextReplies ==
    \/ \E r \in RoomIds : RoomJoin("s1", r)
    \/ \E n \in Names, p \in BOOLEAN, a \in Apps \cup {NoApp} : RoomCreate("s1", n, p, a)
    \/ \E m \in MsgIds : MessageRead("s1", m)
    \/ \E ms \in SUBSET MsgIds \ {{}} : MessagesRead("s1", ms)
    \/ \E t \in Pending, ok \in BOOLEAN : RoomJoinFindById(t, ok)
    \/ \E t \in Pending, ok \in BOOLEAN : RoomJoinSave(t, ok)
    \/ \E t \in Pending, ok \in BOOLEAN : RoomJoinMessageFind(t, ok)
    \/ \E t \in Pending, ok \in BOOLEAN : RoomCreateFindOne(t, ok)
    \/ \E t \in Pending, ok \in BOOLEAN : RoomCreateCreate(t, ok)
    \/ \E t \in Pending, ok \in BOOLEAN : MessageReadFindById(t, ok)
    \/ \E t \in Pending, ok \in BOOLEAN : MessageReadSave(t, ok)
    \/ \E t \in Pending, ok \in BOOLEAN : MessagesReadUpdateMany(t, ok)

SpecReplies ==
    /\ Start({r \in StoredRooms : r.id = 1}, StoredMessages)
    /\ [][NextReplies]_vars
    /\ WF_vars(\E t \in Pending, ok \in BOOLEAN : RoomJoinFindById(t, ok))
    /\ WF_vars(\E t \in Pending, ok \in BOOLEAN : RoomJoinSave(t, ok))
    /\ WF_vars(\E t \in Pending, ok \in BOOLEAN : RoomJoinMessageFind(t, ok))
    /\ WF_vars(\E t \in Pending, ok \in BOOLEAN : RoomCreateFindOne(t, ok))
    /\ WF_vars(\E t \in Pending, ok \in BOOLEAN : RoomCreateCreate(t, ok))
    /\ WF_vars(\E t \in Pending, ok \in BOOLEAN : MessageReadFindById(t, ok))
    /\ WF_vars(\E t \in Pending, ok \in BOOLEAN : MessageReadSave(t, ok))
    /\ WF_vars(\E t \in Pending, ok \in BOOLEAN : MessagesReadUpdateMany(t, ok))

\* ------------------------------------------------------------- claims
RoomBroadcasts == {"message:new", "message:read", "messages:read", "user:joined"}

\* C1: once the disconnect of a connection has been handled, connectedUsers
\* holds no entry for its socket id in any later state.
C1_NoEntryAfterDisconnect ==
    \A c \in Conns : sockState[c] = "closed" => ~connectedUsers[c].present

\* C2: a handler of a connection whose disconnect has been handled emits no
\* message:new, message:read, messages:read or user:joined to a room.
C2_NoBroadcastAfterDisconnect ==
    \A e \in last.emits :
        (e.ev \in RoomBroadcasts /\ e.room # NoRoom /\ last.task.conn \in Conns)
            => sockState[last.task.conn] = "open"

\* C3: every stored message carries at most one read receipt per reader.
C3_OneReceiptPerReader ==
    \A m \in messages : \A i, j \in DOMAIN m.readBy :
        m.readBy[i] = m.readBy[j] => i = j

C5_JoinThenLeave ==
    (/\ last.act = "RoomJoinMessageFind"
     /\ last.ok
     /\ last.task.nxt = "room:leave")
        => /\ connectedUsers[last.task.conn].currentRoom = NoRoom
           /\ last.task.room \notin socketRooms[last.task.conn]

\* C6: when the message of a message:send persists, message:new for it goes
\* to every connection subscribed to the room, the (still connected) sender
\* among them.
C6_SenderReceivesMessageNew ==
    (/\ last.act = "MessageSendCreate"
     /\ last.ok
     /\ \E m \in messages : m.roomId = last.task.room /\ m.senderId = last.task.user
     /\ \A e \in last.emits : e.ev # "error"
     /\ sockState[last.task.conn] = "open")
        => \E e \in last.emits :
              /\ e.ev = "message:new"
              /\ e.room = last.task.room
              /\ e.to = {d \in Conns : sockState[d] = "open" /\ last.task.room \in socketRooms[d]}
              /\ last.task.conn \in e.to

\* C7: no two stored rooms have the same (applicationId, name) pair; the
\* same name in two applications is allowed.
C7_UniqueNamePerApplication ==
    \A r1, r2 \in rooms :
        (r1.name = r2.name /\ r1.applicationId = r2.applicationId) => r1 = r2

\* C7 witness: the same name is stored in two applications, and a creation
\* that passed its existence check has just been rejected by the store.
C7_Witness ==
    /\ \E r1, r2 \in rooms : r1.name = r2.name /\ r1.applicationId # r2.applicationId
    /\ last.act = "RoomCreateCreate"
    /\ last.ok
    /\ \E e \in last.emits : e.ev = "error"

\* C8: a creation refused because the name exists in the application is
\* answered with "Room name already exists for this application", to the
\* requester only, and nothing else is emitted.
C8_ConflictError ==
    (/\ last.act \in {"RoomCreateFindOne", "RoomCreateCreate"}
     /\ last.ok
     /\ \E e \in last.emits : e.ev = "error")
        => \A e \in last.emits :
              /\ e.ev = "error"
              /\ e.text = "Room name already exists for this application"
              /\ e.to \subseteq {last.task.conn}

\* C9: a room:join of an id no stored room has emits one error, to the
\* requester only, and nothing else, and changes neither the registry nor
\* the subscriptions nor the store.
C9_JoinUnknownRoom ==
    [][(/\ last'.act = "RoomJoinFindById"
        /\ last'.ok
        /\ ~\E r \in rooms : r.id = last'.task.room)
           => /\ connectedUsers' = connectedUsers
              /\ socketRooms' = socketRooms
              /\ rooms' = rooms
              /\ messages' = messages
              /\ last'.emits =
                    {[ev |-> "error", text |-> "Room not found", room |-> NoRoom,
                      msgs |-> {}, count |-> 0, users |-> {}, history |-> <<>>,
                      to |-> IF sockState[last'.task.conn] = "open"
                             THEN {last'.task.conn} ELSE {}]}]_vars

\* C9 witness: the requester is in a room together with another connection
\* when its join of an unknown room is answered.
C9_Witness ==
    /\ last.act = "RoomJoinFindById"
    /\ last.ok
    /\ ~\E r \in rooms : r.id = last.task.room
    /\ sockState[last.task.conn] = "open"
    /\ connectedUsers[last.task.conn].currentRoom # NoRoom
    /\ \E d \in Conns \ {last.task.conn} :
          connectedUsers[d].currentRoom = connectedUsers[last.task.conn].currentRoom

\* C10: when room.save() of the joiner's identity fails, the joiner gets no
\* error and the join goes on to room:joined and user:joined.
C10_SaveFailureSwallowed ==
    (last.act = "RoomJoinSave" /\ ~last.ok)
        => /\ \A e \in last.emits : e.ev # "error"
           /\ \E t \in Pending : /\ t.op = "room:join" /\ t.conn = last.task.conn
                                 /\ t.room = last.task.room /\ t.pc = "Message.find"

\* The participants of the room with this id among the stored rooms rs
\* (none if no such room)
ParticipantsIn(rs, roomId) ==
    {u \in Users \cup Conns \cup {"u0"} :
        \E r \in rs : r.id = roomId /\ Includes(r.participants, u)}

Participants(roomId) == ParticipantsIn(rooms, roomId)

\* C11: no participant append is lost: a served room.save() of a room:join
\* adds the joiner to the stored participants of the room and keeps every
\* identity that was there, whatever the handler had fetched; and a
\* room:join that completes with room:joined leaves its identity in the
\* stored participants.
C11_NoLostAppend ==
    /\ [][(last'.act = "RoomJoinSave" /\ last'.ok)
            => /\ last'.task.user \in ParticipantsIn(rooms', last'.task.room)
               /\ \A id \in RoomIds :
                     ParticipantsIn(rooms, id) \subseteq ParticipantsIn(rooms', id)]_vars
    /\ []((last.act = "RoomJoinMessageFind" /\ last.ok)
            => last.task.user \in Participants(last.task.room))

\* C11 witness: two joins of the same room by different identities have
\* both completed; the one that completed last had fetched the room before
\* the other saved (the document it fetched lacks the other identity), and
\* both identities are stored.
C11_Witness ==
    /\ last.act = "RoomJoinMessageFind"
    /\ last.ok
    /\ tasks = EmptyBag
    /\ \E c \in Conns \ {last.task.conn} :
          /\ connectedUsers[c].currentRoom = last.task.room
          /\ connectedUsers[c].senderId # last.task.user
          /\ ~Includes(last.task.seen, connectedUsers[c].senderId)
          /\ ~Includes(last.task.seen, last.task.user)
          /\ {connectedUsers[c].senderId, last.task.user}
                \subseteq Participants(last.task.room)

\* C12: the stored participants of a room hold each identity at most once.
C12_ParticipantsOnce ==
    \A r \in rooms : \A i, j \in DOMAIN r.participants :
        r.participants[i] = r.participants[j] => i = j

\* C13: no step of a room:join (a switch included), of a room:leave or of a
\* disconnect removes an identity from the stored participants of a room:
\* room:leave and disconnect leave the stored rooms as they are, and a
\* room:join step changes at most the joined room, by appending the
\* joiner's identity to its participants.
C13_ParticipantsOnlyGrow ==
    [][/\ last'.act \in {"RoomLeave", "Disconnect"} => rooms' = rooms
       /\ last'.act \in {"RoomJoin", "RoomJoinFindById", "RoomJoinSave",
                         "RoomJoinMessageFind"}
            => \/ rooms' = rooms
               \/ \E r \in rooms :
                     /\ r.id = last'.task.room
                     /\ rooms' = (rooms \ {r}) \cup
                           {[r EXCEPT !.participants = Append(@, last'.task.user)]}]_vars

\* C13 witness: a connection whose identity a join has stored among the
\* participants of a room has left that room, and the identity is still
\* stored.
C13_Witness ==
    /\ last.act = "RoomLeave"
    /\ last.task.room # NoRoom
    /\ \E e \in last.emits : e.ev = "room:left"
    /\ connectedUsers[last.task.conn].senderId # "u0"
    /\ connectedUsers[last.task.conn].senderId \in Participants(last.task.room)

\* The number of receipts of reader on message m
Receipts(m, reader) == Cardinality({i \in DOMAIN m.readBy : m.readBy[i] = reader})

\* C14: a served messages:read reports as count the number of requested
\* ids that are stored messages without a receipt of the caller, and when
\* it completes every requested stored message carries exactly one receipt
\* of the caller.
C14_BatchReadCount ==
    [][(last'.act = "MessagesReadUpdateMany" /\ last'.ok)
         => /\ \E e \in last'.emits :
                  /\ e.ev = "messages:read:success"
                  /\ e.count = Cardinality({m \in messages :
                                   m.id \in last'.task.msgs
                                   /\ ~HasReceipt(m, last'.task.user)})
            /\ \A m \in messages' :
                  m.id \in last'.task.msgs => Receipts(m, last'.task.user) = 1]_vars

\* C15: a served messages:read sends messages:read:success with the count
\* to the caller, and broadcasts messages:read, once, to the current room
\* of the caller's session exactly when the count is positive and the
\* session has a current room; the broadcast carries all requested ids.
C15_BatchReadBroadcast ==
    (last.act = "MessagesReadUpdateMany" /\ last.ok)
        => LET currentRoom == connectedUsers[last.task.conn].currentRoom
               broadcasts == {e \in last.emits : e.ev = "messages:read"}
               successes == {e \in last.emits : e.ev = "messages:read:success"}
           IN  /\ Cardinality(successes) = 1
               /\ \A e \in successes :
                     /\ e.msgs = last.task.msgs
                     /\ e.to \subseteq {last.task.conn}
                     /\ (broadcasts # {}) <=> (e.count > 0 /\ currentRoom # NoRoom)
               /\ Cardinality(broadcasts) <= 1
               /\ \A e \in broadcasts :
                     e.room = currentRoom /\ e.msgs = last.task.msgs

\* C16: message:read is idempotent per (message, reader): only the first
\* request of a reader for a message appends a receipt and is broadcast as
\* message:read to the room, so a message:read that appends leaves exactly
\* one receipt of its reader on the message; a request for a message that
\* carries the receipt is answered with message:read:success alone.
C16_ReadMarkIdempotent ==
    /\ (last.act = "MessageReadSave" /\ last.ok
            /\ \E e \in last.emits : e.ev = "message:read:success")
          => \A m \in messages :
                m.id \in last.task.msgs => Receipts(m, last.task.user) = 1
    /\ (last.act = "MessageReadFindById" /\ last.ok
            /\ \E m \in messages :
                  m.id \in last.task.msgs /\ HasReceipt(m, last.task.user))
          => \A e \in last.emits : e.ev = "message:read:success"

\* C17: a message:send received while the session of the connection has no
\* current room, or while the connection has no session, emits one error,
\* to the sender only, stores no message, starts no Message.create and emits
\* no message:new.
C17_SendOutsideRoom ==
    [][(/\ last'.act = "MessageSend"
        /\ connectedUsers[last'.task.conn].currentRoom = NoRoom)
           => /\ last'.emits =
                    {[ev |-> "error", text |-> "You must join a room first",
                      room |-> NoRoom, msgs |-> {}, count |-> 0, users |-> {}, history |-> <<>>,
                      to |-> {last'.task.conn}]}
              /\ messages' = messages
              /\ \A t \in DOMAIN tasks' :
                    t.op = "message:send"
                        => t \in DOMAIN tasks /\ tasks'[t] = tasks[t]]_vars

\* C17 witness: the sender has a session but no current room, another
\* connection is in a room, and the message:send has been answered with the
\* error.
C17_Witness ==
    /\ last.act = "MessageSend"
    /\ \E e \in last.emits : e.ev = "error"
    /\ connectedUsers[last.task.conn].present
    /\ connectedUsers[last.task.conn].currentRoom = NoRoom
    /\ \E d \in Conns \ {last.task.conn} : connectedUsers[d].currentRoom # NoRoom

\* C18: when Message.create of a message:send fails (the store rejects it,
\* or the document lacks a required field), one error is emitted, to the
\* sender only, no message:new is emitted, the handler ends without
\* another Message.create, and the registry, the subscriptions and the
\* stored messages are unchanged.
C18_SendPersistFailure ==
    [][(/\ last'.act = "MessageSendCreate"
        /\ \/ ~last'.ok
           \/ ~MessageValid(last'.task.room, last'.task.app,
                             last'.task.user, last'.task.name))
           => /\ last'.emits =
                    {[ev |-> "error", text |-> "Failed to send message",
                      room |-> NoRoom, msgs |-> {}, count |-> 0, users |-> {}, history |-> <<>>,
                      to |-> IF sockState[last'.task.conn] = "open"
                             THEN {last'.task.conn} ELSE {}]}
              /\ messages' = messages
              /\ connectedUsers' = connectedUsers
              /\ socketRooms' = socketRooms
              /\ tasks' = tasks (-) SetToBag({last'.task})]_vars

\* C18 witness: the store has rejected the Message.create of a sender who is
\* connected and shares the room with another connection.
C18_Witness ==
    /\ last.act = "MessageSendCreate"
    /\ ~last.ok
    /\ sockState[last.task.conn] = "open"
    /\ last.task.room \in socketRooms[last.task.conn]
    /\ \E d \in Conns \ {last.task.conn} :
          sockState[d] = "open" /\ last.task.room \in socketRooms[d]

\* C19: a message:read received on a connection whose session has no
\* identity is answered with the error "User not authenticated", and a
\* message:read whose message id no stored message has with the error
\* "Message not found"; in both cases that error, to the caller only, is
\* all that is emitted (no message:read to a room, no
\* message:read:success), no receipt is appended and no save is started.
C19_ReadRejected ==
    [][/\ (/\ last'.act = "MessageRead"
            /\ connectedUsers[last'.task.conn].senderId = NoUser)
          => /\ last'.emits =
                   {[ev |-> "error", text |-> "User not authenticated",
                     room |-> NoRoom, msgs |-> {}, count |-> 0, users |-> {}, history |-> <<>>,
                     to |-> {last'.task.conn}]}
             /\ messages' = messages
             /\ \A t \in DOMAIN tasks' :
                   t.op = "message:read"
                       => t \in DOMAIN tasks /\ tasks'[t] = tasks[t]
       /\ (/\ last'.act = "MessageReadFindById"
            /\ last'.ok
            /\ \A m \in messages : m.id \notin last'.task.msgs)
          => /\ last'.emits =
                   {[ev |-> "error", text |-> "Message not found",
                     room |-> NoRoom, msgs |-> {}, count |-> 0, users |-> {}, history |-> <<>>,
                     to |-> IF sockState[last'.task.conn] = "open"
                            THEN {last'.task.conn} ELSE {}]}
             /\ messages' = messages
             /\ tasks' = tasks (-) SetToBag({last'.task})]_vars

\* C19 witness: a caller that is in a room together with another connection
\* has asked to mark a message that is not stored and got the error.
C19_Witness ==
    /\ last.act = "MessageReadFindById"
    /\ last.ok
    /\ \A m \in messages : m.id \notin last.task.msgs
    /\ messages # {}
    /\ \E e \in last.emits : e.text = "Message not found" /\ e.to = {last.task.conn}
    /\ connectedUsers[last.task.conn].currentRoom # NoRoom
    /\ \E d \in Conns \ {last.task.conn} :
          connectedUsers[d].currentRoom = connectedUsers[last.task.conn].currentRoom

\* C20: when a room:join of an existing room R2 is carried out on a
\* connection whose current room is R1, user:left goes to R1 after the
\* socket has left it (the joiner is not among its recipients) and before
\* the socket joins R2; and when that join completes, no event having been
\* received on the connection after it, currentRoom is R2 and the socket is
\* subscribed to R2 and, if R1 differs from R2, not to R1.
C20_RoomSwitch ==
    /\ [][(/\ last'.act = "RoomJoinFindById"
            /\ last'.ok
            /\ \E r \in rooms : r.id = last'.task.room
            /\ connectedUsers[last'.task.conn].currentRoom # NoRoom)
              => LET c == last'.task.conn
                     R1 == connectedUsers[c].currentRoom
                     R2 == last'.task.room
                 IN  /\ \E e \in last'.emits :
                           e.ev = "user:left" /\ e.room = R1 /\ c \notin e.to
                     /\ connectedUsers'[c].currentRoom = R2
                     /\ R2 \in socketRooms'[c]
                     /\ R1 # R2 => R1 \notin socketRooms'[c]]_vars
    /\ []((/\ last.act = "RoomJoinMessageFind"
            /\ last.ok
            /\ last.task.left # NoRoom
            /\ last.task.nxt = "none"
            /\ sockState[last.task.conn] = "open")
              => /\ connectedUsers[last.task.conn].currentRoom = last.task.room
                 /\ last.task.room \in socketRooms[last.task.conn]
                 /\ last.task.left # last.task.room
                       => last.task.left \notin socketRooms[last.task.conn])

\* C21: a room:join that succeeds emits room:joined to the joining
\* connection only, and user:joined to every other connection that is
\* subscribed to the room at that moment, never to the joiner.
C21_JoinedNotices ==
    (last.act = "RoomJoinMessageFind" /\ last.ok)
        => LET c == last.task.conn
               joined == {e \in last.emits : e.ev = "room:joined"}
               notices == {e \in last.emits : e.ev = "user:joined"}
           IN  /\ Cardinality(joined) = 1
               /\ \A e \in joined : e.to \subseteq {c}
               /\ Cardinality(notices) = 1
               /\ \A e \in notices :
                     /\ e.room = last.task.room
                     /\ e.to = {d \in Conns \ {c} :
                                  sockState[d] = "open"
                                  /\ last.task.room \in socketRooms[d]}
               /\ last.emits = joined \cup notices

\* C21 witness: a join has succeeded on a live connection that is subscribed
\* to the room, as is another connection, which gets user:joined.
C21_Witness ==
    /\ last.act = "RoomJoinMessageFind"
    /\ last.ok
    /\ last.task.room \in socketRooms[last.task.conn]
    /\ \E e \in last.emits : e.ev = "room:joined" /\ e.to = {last.task.conn}
    /\ \E e \in last.emits : e.ev = "user:joined" /\ e.to # {}

\* C22: when a connection sends m1 and then m2 in the same room and both
\* are stored, message:new for m1 is emitted before message:new for m2: at
\* the moment message:new is emitted for a message, no message that the
\* same connection sent to the same room later has been stored (and so
\* announced) already.
C22_SendOrder ==
    (last.act = "MessageSendCreate" /\ last.ok
        /\ \E e \in last.emits : e.ev = "message:new")
        => ~\E m \in messages :
              /\ m.roomId = last.task.room
              /\ m.content = last.task.conn
              /\ m.createdAt > last.task.at

\* C23: a room:users request in a room is answered with exactly the
\* sessions whose currentRoom is the requester's current room, the
\* requester's own session excluded, and with no session of a connection
\* that has disconnected.
C23_RoomUsers ==
    (last.act = "RoomUsers" /\ connectedUsers[last.task.conn].currentRoom # NoRoom)
        => LET c == last.task.conn
           IN  \E e \in last.emits :
                  /\ e.ev = "room:users"
                  /\ e.to = {c}
                  /\ e.users = {id \in Conns \ {c} :
                                   /\ connectedUsers[id].present
                                   /\ connectedUsers[id].currentRoom
                                        = connectedUsers[c].currentRoom}
                  /\ \A id \in e.users : sockState[id] = "open"

\* C24: a room:create that succeeds stores one room, whose participants are
\* the creator alone, emits room:created to the requester only, and emits
\* rooms:new, to every connected socket, exactly when the room is public; a
\* private room is announced to no connection.
C24_RoomCreated ==
    [][(/\ last'.act = "RoomCreateCreate"
        /\ last'.task.op = "room:create"
        /\ \E e \in last'.emits : e.ev = "room:created")
           => LET t == last'.task
                  announced == {e \in last'.emits : e.ev = "rooms:new"}
              IN  /\ \E r \in rooms' \ rooms :
                        /\ rooms' = rooms \cup {r}
                        /\ r.participants = <<t.user>>
                        /\ r.createdBy = t.user
                        /\ r.isPrivate = t.priv
                  /\ \A e \in last'.emits :
                        e.ev = "room:created" => e.to \subseteq {t.conn}
                  /\ (announced # {}) <=> ~t.priv
                  /\ \A e \in announced :
                        e.to = {d \in Conns : sockState[d] = "open"}
                  /\ \A e \in last'.emits : e.ev \in {"room:created", "rooms:new"}]_vars

\* C24 witness: a private room has been created by a live connection while
\* another connection with a session is connected, and nothing was
\* announced.
C24_Witness ==
    /\ last.act = "RoomCreateCreate"
    /\ last.task.op = "room:create"
    /\ last.task.priv
    /\ \E e \in last.emits : e.ev = "room:created" /\ e.to = {last.task.conn}
    /\ \E r \in rooms : r.isPrivate /\ r.participants = <<last.task.user>>
    /\ \E d \in Conns \ {last.task.conn} :
          sockState[d] = "open" /\ connectedUsers[d].present

\* C25: the messages listed in room:joined are messages of the joined room
\* only, in ascending order of creation, and they are the latest 50 of the
\* room (all of them when the room has fewer): no message of the room that
\* is left out is later than a listed one.
C25_JoinHistory ==
    (last.act = "RoomJoinMessageFind" /\ last.ok)
        => \A e \in {x \in last.emits : x.ev = "room:joined"} :
              LET h == e.history
                  ofRoom == {m \in messages : m.roomId = last.task.room}
                  listed == {m \in messages : \E i \in DOMAIN h : h[i] = m.id}
                  at(i) == (CHOOSE m \in messages : m.id = h[i]).createdAt
              IN  /\ listed \subseteq ofRoom
                  /\ Cardinality(listed) = Len(h)
                  /\ Len(h) = IF Cardinality(ofRoom) < 50 THEN Cardinality(ofRoom) ELSE 50
                  /\ \A i \in DOMAIN h : i < Len(h) => at(i) < at(i + 1)
                  /\ \A m \in ofRoom \ listed : \A x \in listed :
                        m.createdAt < x.createdAt

\* C25 witness: a room with more than 50 messages, while the other room
\* holds later ones, has been joined; 50 messages are listed.
C25_Witness ==
    /\ last.act = "RoomJoinMessageFind"
    /\ last.ok
    /\ Cardinality({m \in messages : m.roomId = last.task.room}) > 50
    /\ \E m \in messages : m.roomId # last.task.room
    /\ \E e \in last.emits : e.ev = "room:joined" /\ Len(e.history) = 50

\* C26: once DELETE /rooms/{id} has completed (the room is gone from the
\* store, the handler has ended and no message of the room is stored), no
\* later step stores a message of that room.
C26_NoMessageOfDeletedRoom ==
    [][\A r \in StoredRooms :
          (/\ RoomById(r.id) = {}
           /\ ~\E t \in Pending : t.op = "DELETE /rooms/:id" /\ t.room = r.id
           /\ ~\E m \in messages : m.roomId = r.id)
              => ~\E m \in messages' : m.roomId = r.id]_vars

\* C27: the rooms a live connection is subscribed to are exactly its
\* session's currentRoom when that is not null, and none otherwise.
C27_SubscribedToCurrentRoomOnly ==
    \A c \in Conns :
        sockState[c] = "open"
            => socketRooms[c] = IF connectedUsers[c].currentRoom # NoRoom
                                THEN {connectedUsers[c].currentRoom}
                                ELSE {}

\* C28: a message:read or messages:read notice to a room is about messages
\* of that room only, and is delivered only to connections subscribed to
\* the room of the messages.
C28_ReadNoticeInMessageRoom ==
    \A e \in last.emits :
        (e.ev \in {"message:read", "messages:read"} /\ e.room # NoRoom)
            => \A m \in messages :
                  m.id \in e.msgs
                      => /\ e.room = m.roomId
                         /\ \A d \in e.to : m.roomId \in socketRooms[d]

\* C29: every stored message has the applicationId of the room it is
\* stored in, and every session that is in a room has the applicationId
\* of that room.
C29_TenantIsolation ==
    /\ \A m \in messages : \A r \in rooms :
          m.roomId = r.id => m.applicationId = r.applicationId
    /\ \A c \in Conns : \A r \in rooms :
          (connectedUsers[c].present /\ connectedUsers[c].currentRoom = r.id
             /\ connectedUsers[c].applicationId # NoApp)
              => connectedUsers[c].applicationId = r.applicationId

\* The requests that are answered, and the success event of each
Replied == {"room:join", "room:create", "message:read", "messages:read"}

SuccessOf(op) ==
    CASE op = "room:join" -> "room:joined"
      [] op = "room:create" -> "room:created"
      [] op = "message:read" -> "message:read:success"
      [] op = "messages:read" -> "messages:read:success"

\* The terminal replies among the events of the step just taken: the
\* success event of the request or an error
TerminalReplies(step) ==
    {e \in step.emits : e.ev \in {"error", SuccessOf(step.task.op)}}

\* C30: every room:join, room:create, message:read and messages:read
\* request gets exactly one terminal reply, its success event or an error,
\* delivered to the requester: a step of its handler emits at most one
\* terminal reply, to the requester, it emits one exactly when it ends the
\* handler, and every pending handler eventually ends.
C30_OneTerminalReply ==
    /\ [][last'.task.op \in Replied
            => LET replies == TerminalReplies(last')
                   before == BagCardinality(tasks)
                   after == BagCardinality(tasks')
                   received1 == last'.act \in {"RoomJoin", "RoomCreate",
                                               "MessageRead", "MessagesRead"}
               IN  /\ Cardinality(replies) <= 1
                   /\ \A e \in replies : e.to = {last'.task.conn}
                   /\ (replies = {}) <=>
                         (after = IF received1 THEN before + 1 ELSE before)
                   /\ (replies # {}) <=>
                         (after = IF received1 THEN before ELSE before - 1)]_vars
    /\ \A op \in Replied :
          (\E t \in Pending : t.op = op)
              ~> (last.task.op = op /\ TerminalReplies(last) # {})
    /\ <>[](tasks = EmptyBag)

\* C30 witness: a room:join that went through all three store calls has
\* been answered with room:joined, after other requests, and no handler is
\* pending.
C30_Witness ==
    /\ last.act = "RoomJoinMessageFind"
    /\ \E e \in last.emits : e.ev = "room:joined" /\ e.to = {last.task.conn}
    /\ last.task.seen # <<>>
    /\ ~Includes(last.task.seen, last.task.user)
    /\ tasks = EmptyBag
    /\ received > 1
====
